---- MODULE Spec2Model ----
(***************************************************************************)
(* SqueezeNet v1.0 with simple bypass (zoo/squeezenet/squeezenet_bypass_c). *)
(*                                                                         *)
(* The class builds a symbolic layer graph.  A graph is a sequence of      *)
(* nodes in build order; a node records the layer, the method that         *)
(* created it, its parameters, the indices of the nodes it reads and its   *)
(* output shape (batch dimension left out).  A tensor is a handle on a     *)
(* graph: the graph built so far, the node it is the output of, and the    *)
(* exception raised while building, if any.  A raised exception skips      *)
(* every later statement of the call.                                      *)
(*                                                                         *)
(* Dropout rates are percentages (50 is 0.5).                              *)
(***************************************************************************)
EXTENDS Integers, Sequences, FiniteSets

VARIABLES
    groups,        \* the class-level list SqueezeNetBypass.groups
    callerGroups,  \* a list object the caller holds and passes as groups
    hasInstance,   \* some construction has returned an instance
    lastCall,      \* the last call: its arguments, and the list as passed
    graph,         \* the graph the last call built (empty when it raised)
    raised,        \* the exception the last call ended in, or "none"
    onlyDefaults   \* every call so far was SqueezeNetBypass() with no argument

vars == <<groups, callerGroups, hasInstance, lastCall, graph, raised, onlyDefaults>>

(***************************************************************************)
(* Bounds and input domains                                                *)
(***************************************************************************)
\* Largest number of block specs in a list the caller writes.
MaxBlocks == 2

\* Defaults of the parameters of __init__.
DefaultDropout == 50
DefaultInputShape == <<224, 224, 3>>
DefaultClasses == 1000

FilterChoices == {12, 16}
DropoutChoices == {20, DefaultDropout}
ShapeChoices == {DefaultInputShape, <<128, 128, 3>>}
ClassChoices == {10, DefaultClasses}

BlockSpecs == [n_filters : FilterChoices, bypass : BOOLEAN]

RECURSIVE ConfigsUpTo(_)
\* The lists of non-empty groups holding at most n block specs in all.
ConfigsUpTo(n) ==
    {<<>>} \cup
    UNION { { <<g>> \o rest : g \in [1..k -> BlockSpecs], rest \in ConfigsUpTo(n - k) }
            : k \in 1..n }

CallerConfigs == ConfigsUpTo(MaxBlocks)

(***************************************************************************)
(* Class attributes                                                        *)
(***************************************************************************)
GroupsTable ==
    << << [n_filters |-> 16, bypass |-> FALSE],
          [n_filters |-> 16, bypass |-> TRUE],
          [n_filters |-> 32, bypass |-> FALSE] >>,
       << [n_filters |-> 32, bypass |-> TRUE],
          [n_filters |-> 48, bypass |-> FALSE],
          [n_filters |-> 48, bypass |-> TRUE],
          [n_filters |-> 64, bypass |-> FALSE] >>,
       << [n_filters |-> 64, bypass |-> TRUE] >> >>

\* The names the class body binds; SqueezeNetBypass.<name> for any other
\* name raises AttributeError.
ClassAttributes == {"groups", "init_weights", "_model"}

InputShape == <<224, 224, 3>>
StemFilters == 96
StemKernel == 7
PoolSize == 3
PoolStrides == 2
ExpandFactor == 4

(***************************************************************************)
(* Layers of the host library                                              *)
(***************************************************************************)
Node(op, name, by, filters, kernel, strides, rate, inputs, shape) ==
    [op |-> op, name |-> name, by |-> by, filters |-> filters, kernel |-> kernel,
     strides |-> strides, rate |-> rate, inputs |-> inputs, shape |-> shape]

Tensor(g, at) == [g |-> g, at |-> at, raised |-> "none"]

Raise(t, e) == [g |-> t.g, at |-> t.at, raised |-> e]

Emit(t, node) == Tensor(Append(t.g, node), Len(t.g) + 1)

ShapeAt(t, i) == t.g[i].shape

\* padding='same': ceil(n / strides)
SameLength(n, strides) == (n + strides - 1) \div strides

\* padding='valid': floor((n - pool) / strides) + 1
ValidLength(n, pool, strides) == (n - pool) \div strides + 1

Input(shape) ==
    Tensor(<<Node("Input", "inputs", "__init__", 0, 0, 0, 0, <<>>, shape)>>, 1)

Conv2D(t, src, filters, kernel, strides, name, by) ==
    IF t.raised # "none" THEN t
    ELSE LET s == ShapeAt(t, src)
         IN Emit(t, Node("Conv2D", name, by, filters, kernel, strides, 0, <<src>>,
                         <<SameLength(s[1], strides), SameLength(s[2], strides), filters>>))

MaxPooling2D(t, src, pool, strides, by) ==
    IF t.raised # "none" THEN t
    ELSE LET s == ShapeAt(t, src)
         IN IF s[1] < pool \/ s[2] < pool
            THEN Raise(t, "ValueError")
            ELSE Emit(t, Node("MaxPooling2D", "x", by, 0, pool, strides, 0, <<src>>,
                              <<ValidLength(s[1], pool, strides),
                                ValidLength(s[2], pool, strides), s[3]>>))

Concatenate(t, a, b, by) ==
    IF t.raised # "none" THEN t
    ELSE LET sa == ShapeAt(t, a)
             sb == ShapeAt(t, b)
         IN IF sa[1] # sb[1] \/ sa[2] # sb[2]
            THEN Raise(t, "ValueError")
            ELSE Emit(t, Node("Concatenate", "x", by, 0, 0, 0, 0, <<a, b>>,
                              <<sa[1], sa[2], sa[3] + sb[3]>>))

\* Element-wise merge: two dimensions agree when equal or when one is 1.
MergeOk(i, j) == i = j \/ i = 1 \/ j = 1

MergeDim(i, j) == IF i = 1 THEN j ELSE i

Add(t, a, b, by) ==
    IF t.raised # "none" THEN t
    ELSE LET sa == ShapeAt(t, a)
             sb == ShapeAt(t, b)
         IN IF \E d \in 1..3 : ~MergeOk(sa[d], sb[d])
            THEN Raise(t, "ValueError")
            ELSE Emit(t, Node("Add", "x", by, 0, 0, 0, 0, <<a, b>>,
                              [d \in 1..3 |-> MergeDim(sa[d], sb[d])]))

Dropout(t, src, rate, by) ==
    IF t.raised # "none" THEN t
    ELSE Emit(t, Node("Dropout", "x", by, 0, 0, 0, rate, <<src>>, ShapeAt(t, src)))

GlobalAveragePooling2D(t, src, by) ==
    IF t.raised # "none" THEN t
    ELSE Emit(t, Node("GlobalAveragePooling2D", "x", by, 0, 0, 0, 0, <<src>>,
                      <<ShapeAt(t, src)[3]>>))

Activation(t, src, by) ==
    IF t.raised # "none" THEN t
    ELSE Emit(t, Node("softmax", "x", by, 0, 0, 0, 0, <<src>>, ShapeAt(t, src)))

(***************************************************************************)
(* Methods of SqueezeNetBypass                                             *)
(***************************************************************************)
\* Python evaluates the right-hand side of  name = expression  once and
\* binds the value:  With(expression, LAMBDA name : rest).
With(v, F(_)) == CHOOSE r \in {F(n) : n \in {v}} : TRUE

stem(inputs) ==
    With(Conv2D(inputs, inputs.at, StemFilters, StemKernel, 2, "x", "stem"), LAMBDA x :
    MaxPooling2D(x, x.at, PoolSize, PoolStrides, "stem"))

\* fire_block with the bypass flag ignored: the shortcut is never added.
fire_block_NeverAdds(x, n_filters, bypass) ==
    With(Conv2D(x, x.at, n_filters, 1, 1, "squeeze", "fire_block"), LAMBDA squeeze :
    With(Conv2D(squeeze, squeeze.at, n_filters * ExpandFactor, 1, 1,
                "expand1x1", "fire_block"), LAMBDA expand1x1 :
    With(Conv2D(expand1x1, squeeze.at, n_filters * ExpandFactor, 3, 1,
                "expand3x3", "fire_block"), LAMBDA expand3x3 :
    Concatenate(expand3x3, expand1x1.at, expand3x3.at, "fire_block"))))

\* fire_block whose expand branches double the squeeze filters instead of
\* multiplying them by four.
fire_block_DoubleExpand(x, n_filters, bypass) ==
    With(Conv2D(x, x.at, n_filters, 1, 1, "squeeze", "fire_block"), LAMBDA squeeze :
    With(Conv2D(squeeze, squeeze.at, n_filters * 2, 1, 1,
                "expand1x1", "fire_block"), LAMBDA expand1x1 :
    With(Conv2D(expand1x1, squeeze.at, n_filters * 2, 3, 1,
                "expand3x3", "fire_block"), LAMBDA expand3x3 :
    With(Concatenate(expand3x3, expand1x1.at, expand3x3.at, "fire_block"), LAMBDA cat :
    IF bypass THEN Add(cat, cat.at, x.at, "fire_block") ELSE cat))))

\* shortcut is x.at, the node the block reads.
fire_block(x, n_filters, bypass) ==
    With(Conv2D(x, x.at, n_filters, 1, 1, "squeeze", "fire_block"), LAMBDA squeeze :
    With(Conv2D(squeeze, squeeze.at, n_filters * ExpandFactor, 1, 1,
                "expand1x1", "fire_block"), LAMBDA expand1x1 :
    With(Conv2D(expand1x1, squeeze.at, n_filters * ExpandFactor, 3, 1,
                "expand3x3", "fire_block"), LAMBDA expand3x3 :
    With(Concatenate(expand3x3, expand1x1.at, expand3x3.at, "fire_block"), LAMBDA cat :
    IF bypass THEN Add(cat, cat.at, x.at, "fire_block") ELSE cat))))

RECURSIVE FireBlocks(_, _, _)
\* for block in blocks: x = fire_block(x, **block), from the i-th block on
FireBlocks(x, blocks, i) ==
    IF i > Len(blocks) THEN x
    ELSE With(fire_block(x, blocks[i].n_filters, blocks[i].bypass), LAMBDA y :
         FireBlocks(y, blocks, i + 1))

RECURSIVE FireBlocksPooled(_, _, _)
FireBlocksPooled(x, blocks, i) ==
    IF i > Len(blocks) THEN x
    ELSE With(fire_block(x, blocks[i].n_filters, blocks[i].bypass), LAMBDA y :
         With(MaxPooling2D(y, y.at, PoolSize, PoolStrides, "group"), LAMBDA z :
         FireBlocksPooled(z, blocks, i + 1)))

\* group with the pooling inside the loop: one pooling after every block.
group_PoolPerBlock(x, blocks) == FireBlocksPooled(x, blocks, 1)

group(x, blocks) ==
    With(FireBlocks(x, blocks, 1), LAMBDA y :
    MaxPooling2D(y, y.at, PoolSize, PoolStrides, "group"))

RECURSIVE FireGroups(_, _, _)
\* for group in groups: x = group(x, blocks=group), from the i-th group on
FireGroups(x, gs, i) ==
    IF i > Len(gs) THEN x
    ELSE With(group(x, gs[i]), LAMBDA y : FireGroups(y, gs, i + 1))

\* groups.pop(): the last element, and the list it leaves.
Last(gs) == gs[Len(gs)]
Popped(gs) == SubSeq(gs, 1, Len(gs) - 1)

\* learner with the dropout placed before the last fire block.
learner_DropoutEarly(x, gs, hasDropout, dropout) ==
    IF ~hasDropout /\ "dropout" \notin ClassAttributes
    THEN [x |-> Raise(x, "AttributeError"), groups |-> gs]
    ELSE IF Len(gs) = 0
    THEN [x |-> Raise(x, "IndexError"), groups |-> gs]
    ELSE With(FireGroups(x, Popped(gs), 1), LAMBDA y :
         With(Dropout(y, y.at, dropout, "learner"), LAMBDA d :
         [x |-> IF d.raised # "none" THEN d
                ELSE IF Len(Last(gs)) = 0 THEN Raise(d, "IndexError")
                ELSE fire_block(d, Last(gs)[1].n_filters, Last(gs)[1].bypass),
          groups |-> Popped(gs)]))

\* The tensor returned (or the exception raised) and the list object
\* 'groups' as the call leaves it.
learner(x, gs, hasDropout, dropout) ==
    IF ~hasDropout /\ "dropout" \notin ClassAttributes
    THEN [x |-> Raise(x, "AttributeError"), groups |-> gs]
    ELSE IF Len(gs) = 0
    THEN [x |-> Raise(x, "IndexError"), groups |-> gs]
    ELSE With(FireGroups(x, Popped(gs), 1), LAMBDA y :
         With(IF y.raised # "none" THEN y
              ELSE IF Len(Last(gs)) = 0 THEN Raise(y, "IndexError")
              ELSE fire_block(y, Last(gs)[1].n_filters, Last(gs)[1].bypass), LAMBDA z :
         [x |-> Dropout(z, z.at, dropout, "learner"), groups |-> Popped(gs)]))

\* classifier with the number of classes fixed at the default of __init__.
classifier_FixedClasses(x, n_classes) ==
    With(Conv2D(x, x.at, DefaultClasses, 1, 1, "x", "classifier"), LAMBDA c :
    With(GlobalAveragePooling2D(c, c.at, "classifier"), LAMBDA p :
    Activation(p, p.at, "classifier")))

classifier(x, n_classes) ==
    With(Conv2D(x, x.at, n_classes, 1, 1, "x", "classifier"), LAMBDA c :
    With(GlobalAveragePooling2D(c, c.at, "classifier"), LAMBDA p :
    Activation(p, p.at, "classifier")))

\* __init__ with 'groups' bound to the list object gs.
SqueezeNetBypass_init(gs, dropout, input_shape, n_classes) ==
    With(Input(InputShape), LAMBDA inputs :
    With(stem(inputs), LAMBDA x :
    With(learner(x, gs, TRUE, dropout), LAMBDA l :
    With(classifier(l.x, n_classes), LAMBDA outputs :
    [model |-> IF outputs.raised = "none" THEN outputs.g ELSE <<>>,
     raised |-> outputs.raised,
     groups |-> l.groups]))))

(***************************************************************************)
(* State machine                                                           *)
(***************************************************************************)
Call(kind, gs, hasDropout, dropout, input_shape, n_classes) ==
    [kind |-> kind, groupsBefore |-> gs, hasDropout |-> hasDropout,
     dropout |-> dropout, input_shape |-> input_shape, n_classes |-> n_classes]

Init ==
    /\ groups = GroupsTable
    /\ callerGroups \in CallerConfigs
    /\ hasInstance = FALSE
    /\ lastCall = Call("none", <<>>, FALSE, 0, <<>>, 0)
    /\ graph = <<>>
    /\ raised = "none"
    /\ onlyDefaults = TRUE

\* SqueezeNetBypass(dropout=..., input_shape=..., n_classes=...): groups is
\* None, so the class-level list itself is handed to the learner.
ConstructDefault ==
    \E dropout \in DropoutChoices, input_shape \in ShapeChoices, n_classes \in ClassChoices :
    \E r \in {SqueezeNetBypass_init(groups, dropout, input_shape, n_classes)} :
        /\ lastCall' = Call("default", groups, TRUE, dropout, input_shape, n_classes)
        /\ groups' = r.groups
        /\ graph' = r.model
        /\ raised' = r.raised
        /\ hasInstance' = (hasInstance \/ r.raised = "none")
        /\ onlyDefaults' = (onlyDefaults /\ dropout = DefaultDropout
                             /\ input_shape = DefaultInputShape
                             /\ n_classes = DefaultClasses)
        /\ UNCHANGED callerGroups

\* SqueezeNetBypass(groups=their_list, ...): the caller's list object is
\* handed to the learner.
ConstructCaller ==
    \E dropout \in DropoutChoices, input_shape \in ShapeChoices, n_classes \in ClassChoices :
    \E r \in {SqueezeNetBypass_init(callerGroups, dropout, input_shape, n_classes)} :
        /\ lastCall' = Call("caller", callerGroups, TRUE, dropout, input_shape, n_classes)
        /\ callerGroups' = r.groups
        /\ graph' = r.model
        /\ raised' = r.raised
        /\ hasInstance' = (hasInstance \/ r.raised = "none")
        /\ onlyDefaults' = FALSE
        /\ UNCHANGED groups

\* instance.learner(instance.stem(Input(shape)), groups=their_list[, dropout=...])
\* on an instance an earlier construction returned.
LearnerCall ==
    /\ hasInstance
    /\ \E hasDropout \in BOOLEAN, input_shape \in ShapeChoices :
       \E dropout \in IF hasDropout THEN DropoutChoices ELSE {0} :
       \E x \in {stem(Input(input_shape))} :
       \E l \in {learner(x, callerGroups, hasDropout, dropout)} :
        /\ lastCall' = Call("learner", callerGroups, hasDropout, dropout, input_shape, 0)
        /\ callerGroups' = l.groups
        /\ graph' = IF l.x.raised = "none" THEN l.x.g ELSE <<>>
        /\ raised' = l.x.raised
        /\ onlyDefaults' = FALSE
        /\ UNCHANGED <<groups, hasInstance>>

Next == ConstructDefault \/ ConstructCaller \/ LearnerCall

Spec == Init /\ [][Next]_vars

(***************************************************************************)
(* Reading a built graph                                                   *)
(***************************************************************************)
NodesWhere(g, P(_)) == SelectSeq([i \in 1..Len(g) |-> i], LAMBDA i : P(g[i]))

IsSqueeze(n) == n.name = "squeeze"
IsGroupPool(n) == n.op = "MaxPooling2D" /\ n.by = "group"
IsPool(n) == n.op = "MaxPooling2D"
IsDropout(n) == n.op = "Dropout"
IsAdd(n) == n.op = "Add"
IsClassifierConv(n) == n.op = "Conv2D" /\ n.by = "classifier"

\* The fire block whose squeeze layer is node i: its input, its
\* concatenation, and whether an Add of the two closes it.
BlockInput(g, i) == g[i].inputs[1]

HasShortcut(g, i) ==
    /\ i + 4 <= Len(g)
    /\ g[i + 4].op = "Add"
    /\ g[i + 4].inputs = <<i + 3, BlockInput(g, i)>>

BlockOutput(g, i) == IF HasShortcut(g, i) THEN i + 4 ELSE i + 3

FireBlocksOf(g) ==
    LET sq == NodesWhere(g, IsSqueeze)
    IN [k \in 1..Len(sq) |-> [n_filters |-> g[sq[k]].filters,
                              bypass |-> HasShortcut(g, sq[k])]]

RECURSIVE Flatten(_)
Flatten(gs) == IF Len(gs) = 0 THEN <<>> ELSE gs[1] \o Flatten(Tail(gs))

RECURSIVE BlocksInFirst(_, _)
\* Number of block specs in the first k groups.
BlocksInFirst(gs, k) == IF k = 0 THEN 0 ELSE Len(gs[k]) + BlocksInFirst(gs, k - 1)

WellFormed(gs) == Len(gs) > 0 /\ \A i \in 1..Len(gs) : Len(gs[i]) > 0

Called == lastCall.kind # "none"
Built == Called /\ raised = "none"
Constructed == lastCall.kind \in {"default", "caller"} /\ raised = "none"
FirstDefault == lastCall.kind = "default" /\ lastCall.groupsBefore = GroupsTable

Rank(by) ==
    CASE by = "__init__" -> 0
      [] by = "stem" -> 1
      [] by \in {"group", "fire_block"} -> 2
      [] by = "learner" -> 3
      [] by = "classifier" -> 4

(***************************************************************************)
(* Claims                                                                  *)
(***************************************************************************)

\* C1: whenever a call given a non-empty list of non-empty groups builds a
\* graph, the fire blocks of the graph are, in order, the block specs of all
\* the groups (n_filters and bypass flag), those of the last group included.
C1_EveryBlockSpecBuilt ==
    (Built /\ WellFormed(lastCall.groupsBefore))
        => FireBlocksOf(graph) = Flatten(lastCall.groupsBefore)

\* C2: after __init__ returns, the list it was given (the class-level table
\* when groups is None, the caller's list otherwise) is what it was before
\* the call.
C2_GroupsListUntouched ==
    /\ lastCall.kind = "default" => groups = lastCall.groupsBefore
    /\ lastCall.kind = "caller" => callerGroups = lastCall.groupsBefore

\* C3: in a run of k >= 1 constructions SqueezeNetBypass() with default
\* arguments, every construction completes and builds the fire blocks of
\* the first one: the 8 blocks of the table, with 2 group poolings.
C3_DefaultConstructionsAgree ==
    (Called /\ onlyDefaults)
        => /\ raised = "none"
           /\ FireBlocksOf(graph) = Flatten(GroupsTable)
           /\ Len(NodesWhere(graph, IsGroupPool)) = 2

\* C4: the input of a constructed model has the shape passed as input_shape.
C4_InputShapeHonoured ==
    Constructed => graph[1].op = "Input" /\ graph[1].shape = lastCall.input_shape

\* C5: the first construction with the default table builds 8 fire blocks,
\* with an Add of block input and block output exactly at blocks 2, 4, 6, 8.
C5_BypassOnEvenBlocks ==
    FirstDefault
        => /\ raised = "none"
           /\ LET sq == NodesWhere(graph, IsSqueeze)
              IN /\ Len(sq) = 8
                 /\ \A k \in 1..8 : HasShortcut(graph, sq[k]) <=> k \in {2, 4, 6, 8}
                 /\ Len(NodesWhere(graph, IsAdd)) = 4

C5_Witness ==
    /\ FirstDefault /\ raised = "none"
    /\ HasShortcut(graph, NodesWhere(graph, IsSqueeze)[2])
    /\ ~HasShortcut(graph, NodesWhere(graph, IsSqueeze)[1])

\* C6: a fire block outputs 8 * n_filters channels at the spatial size of
\* its input; with the default table the construction completes, the stem
\* outputs 96 channels, every block flagged bypass reads 8 * n_filters
\* channels, and the two operands of every Add have the same shape.
C6_ResidualShapesAgree ==
    /\ Built =>
         \A i \in 1..Len(graph) :
            IsSqueeze(graph[i]) =>
               LET in == graph[BlockInput(graph, i)].shape
               IN /\ graph[i + 3].op = "Concatenate"
                  /\ graph[i + 3].shape = <<in[1], in[2], 8 * graph[i].filters>>
                  /\ graph[BlockOutput(graph, i)].shape = graph[i + 3].shape
    /\ FirstDefault =>
         /\ raised = "none"
         /\ graph[3].by = "stem" /\ graph[3].shape[3] = 96
         /\ LET sq == NodesWhere(graph, IsSqueeze)
                specs == Flatten(GroupsTable)
            IN \A k \in 1..Len(specs) :
                  specs[k].bypass =>
                     graph[BlockInput(graph, sq[k])].shape[3] = 8 * specs[k].n_filters
    /\ (lastCall.kind = "default" /\ raised = "none") =>
         \A i \in 1..Len(graph) :
            IsAdd(graph[i]) =>
               graph[graph[i].inputs[1]].shape = graph[graph[i].inputs[2]].shape

C6_Witness ==
    /\ FirstDefault /\ raised = "none"
    /\ \E i \in 1..Len(graph) :
          /\ IsAdd(graph[i])
          /\ graph[graph[i].inputs[2]].shape = <<13, 13, 512>>
          /\ graph[i].shape = <<13, 13, 512>>

\* C7: every built graph has one 3x3 stride-2 pooling per iterated group,
\* reading the output of the group's last fire block; with the default
\* table the side is 112 after the stem convolution, 55 after the stem
\* pooling, 27 and 13 after the two groups, no pooling follows the final
\* fire block, and no side is below 1.
C7_DelayedDownsampling ==
    /\ (Built /\ WellFormed(lastCall.groupsBefore)) =>
         LET pools == NodesWhere(graph, IsGroupPool)
             sq == NodesWhere(graph, IsSqueeze)
             gb == lastCall.groupsBefore
         IN /\ Len(pools) = Len(gb) - 1
            /\ \A k \in 1..Len(pools) :
                  LET nb == BlocksInFirst(gb, k)
                  IN /\ graph[pools[k]].kernel = 3 /\ graph[pools[k]].strides = 2
                     /\ nb <= Len(sq)
                     /\ graph[pools[k]].inputs = <<BlockOutput(graph, sq[nb])>>
                     /\ Cardinality({j \in 1..Len(sq) : sq[j] < pools[k]}) = nb
            /\ \A j \in 1..Len(sq) :
                  graph[BlockInput(graph, sq[j])].op = "MaxPooling2D"
                     <=> \E k \in 0..Len(pools) : j = BlocksInFirst(gb, k) + 1
    /\ FirstDefault =>
         /\ raised = "none"
         /\ LET pools == NodesWhere(graph, IsGroupPool)
                sq == NodesWhere(graph, IsSqueeze)
            IN /\ graph[2].op = "Conv2D" /\ graph[2].shape[1] = 112
               /\ graph[3].op = "MaxPooling2D" /\ graph[3].shape[1] = 55
               /\ Len(pools) = 2
               /\ graph[pools[1]].shape[1] = 27
               /\ graph[pools[2]].shape[1] = 13
               /\ \A i \in 1..Len(graph) :
                     IsPool(graph[i]) => i < sq[Len(sq)]
               /\ \A i \in 1..Len(graph) :
                     Len(graph[i].shape) = 3 =>
                        graph[i].shape[1] >= 1 /\ graph[i].shape[2] >= 1

C7_Witness ==
    /\ FirstDefault /\ raised = "none"
    /\ Len(NodesWhere(graph, IsGroupPool)) = 2
    /\ graph[NodesWhere(graph, IsGroupPool)[2]].shape = <<13, 13, 512>>

\* C8: every constructed graph is wired stem, fire groups, final fire
\* block, dropout, classifier, with a single Dropout of the given rate that
\* reads the last fire block and feeds the classifier's 1x1 convolution.
C8_DropoutOnceBeforeClassifier ==
    Constructed =>
        LET drops == NodesWhere(graph, IsDropout)
            convs == NodesWhere(graph, IsClassifierConv)
            sq == NodesWhere(graph, IsSqueeze)
        IN /\ Len(drops) = 1
           /\ Len(convs) = 1
           /\ Len(sq) >= 1
           /\ graph[drops[1]].rate = lastCall.dropout
           /\ graph[drops[1]].inputs = <<BlockOutput(graph, sq[Len(sq)])>>
           /\ graph[convs[1]].inputs = <<drops[1]>>
           /\ graph[convs[1]].kernel = 1
           /\ \A i \in 1..Len(graph) :
                 graph[i].by \in {"fire_block", "group"} =>
                    /\ i < drops[1]
                    /\ \A s \in 1..Len(graph[i].inputs) : graph[i].inputs[s] # drops[1]
           /\ \A i, j \in 1..Len(graph) :
                 i < j => Rank(graph[i].by) <= Rank(graph[j].by)

C8_Witness ==
    /\ Constructed /\ lastCall.kind = "caller" /\ lastCall.dropout = 20
    /\ Len(lastCall.groupsBefore) = 2
    /\ \E i \in 1..Len(graph) : IsDropout(graph[i]) /\ graph[i].rate = 20

\* C9: learner called without a 'dropout' metaparameter builds its graph
\* without raising.
C9_LearnerDefaultDropout ==
    (lastCall.kind = "learner" /\ ~lastCall.hasDropout) => raised = "none"

\* C10: the model output is softmax over a vector of n_classes entries, the
\* global average of a 1x1 convolution with n_classes filters, whatever the
\* groups and the spatial size that reach the classifier.
C10_OutputIsNClasses ==
    Constructed =>
        LET n == Len(graph)
        IN /\ n >= 3
           /\ graph[n].op = "softmax" /\ graph[n].shape = <<lastCall.n_classes>>
           /\ graph[n].inputs = <<n - 1>>
           /\ graph[n - 1].op = "GlobalAveragePooling2D"
           /\ graph[n - 1].shape = <<lastCall.n_classes>>
           /\ graph[n - 1].inputs = <<n - 2>>
           /\ IsClassifierConv(graph[n - 2])
           /\ graph[n - 2].filters = lastCall.n_classes
           /\ graph[n - 2].kernel = 1

C10_Witness ==
    /\ Constructed /\ lastCall.kind = "caller" /\ lastCall.n_classes = 10
    /\ graph[Len(graph)].shape = <<10>>
    /\ graph[Len(graph) - 2].shape = <<27, 27, 10>>

====
